---- MODULE Spec2Model ----
(***************************************************************************)
(* A model of the progression and reward engine of auragrowth              *)
(* (src/core/models.py, src/core/utils.py, src/core/views.py).             *)
(*                                                                         *)
(* The database is modelled row by row: a Django save() rewrites the whole *)
(* row from the in-memory object, a load copies the row into a request's   *)
(* own object.  No handler of src/ opens a transaction around its reads    *)
(* and writes, so every query is a step of its own.                        *)
(***************************************************************************)
EXTENDS Integers, Sequences, FiniteSets, Bags, TLC

VARIABLES
    xpPc,        \* add_xp: "ready" | "loop" | "done"
    xpSelf,      \* add_xp: the in-memory Profile (self)
    xpBefore,    \* add_xp: self as it was when add_xp was called
    xpAmount,    \* add_xp: the amount argument
    xpRow,       \* add_xp: the Profile row as last saved
    now,         \* the clock: timezone.now()
    dbHabits,    \* the Habit table: a sequence of rows, the id is the index
    hreq,        \* per caller of complete_today: its position and its Habit object
    dbProfile,   \* the character's Profile row
    dbQuests,    \* the Quest table: a sequence of rows, the id is the index
    dbLog,       \* the LogEntry table: a bag of rows
    qreq,        \* per caller of complete_quest: its position and its objects
    faults,      \* persistence failures so far
    lastCall,    \* the last generate_daily_quests or parse_ai_action call and what it returned
    profileExists,   \* whether the character's Profile row is still in the database
    character_class, \* Profile.character_class
    dbChat,      \* the AIResponse table: a sequence of rows in order of creation
    lastJob,     \* the deferred job or chat request just run, and how it ended
    dbEffects    \* the StatusEffect table: a sequence of rows

xpVars == <<xpPc, xpSelf, xpBefore, xpAmount, xpRow>>
habitVars == <<dbHabits, hreq>>
gameVars == <<dbProfile, dbQuests, dbLog, qreq, faults, lastCall>>
sideVars == <<profileExists, character_class, dbChat, lastJob, dbEffects>>

vars == <<xpPc, xpSelf, xpBefore, xpAmount, xpRow, now, dbHabits, hreq,
          dbProfile, dbQuests, dbLog, qreq, faults, lastCall,
          profileExists, character_class, dbChat, lastJob, dbEffects>>

----------------------------------------------------------------------------
(* Profile: the character (models.py 7-76).                                *)

StatNames == {"strength", "intelligence", "charisma", "endurance", "luck"}

DefaultLevel == 1
DefaultTotalXp == 0
DefaultXpToNextLevel == 10000
DefaultStat == 10

\* A Profile row with the field defaults of the model class.
NewProfile ==
    [level |-> DefaultLevel, total_xp |-> DefaultTotalXp,
     xp_to_next_level |-> DefaultXpToNextLevel,
     strength |-> DefaultStat, intelligence |-> DefaultStat,
     charisma |-> DefaultStat, endurance |-> DefaultStat, luck |-> DefaultStat]

\* The factor inverted: the threshold shrinks and reaches 0.
ShrinkThreshold(x) == (x * 5) \div 6

\* int(x * 1.2): the float product truncated toward zero.  For |x| < 2^50
\* the double nearest x * 1.2 truncates to the same integer as 6x/5.
GrowThreshold(x) ==
    IF x >= 0 THEN (x * 6) \div 5 ELSE -(((-x) * 6) \div 5)

\* A level-up that forgets the stat bonus.
level_up_no_bonus(p) ==
    [p EXCEPT !.level = @ + 1,
              !.total_xp = @ - p.xp_to_next_level,
              !.xp_to_next_level = GrowThreshold(@)]

\* Profile.level_up: one pass of the cascade.
level_up(p) ==
    [p EXCEPT !.level = @ + 1,
              !.total_xp = @ - p.xp_to_next_level,
              !.xp_to_next_level = GrowThreshold(@),
              !.strength = @ + 1,
              !.intelligence = @ + 1,
              !.charisma = @ + 1,
              !.endurance = @ + 1,
              !.luck = @ + 1]

\* The loop test written with > in place of >=.
NeedsLevelUpStrict(p) == p.total_xp > p.xp_to_next_level

\* The test of add_xp's while loop.
NeedsLevelUp(p) == p.total_xp >= p.xp_to_next_level

RECURSIVE LevelUpLoop(_)
\* The while loop of add_xp, run to its end.
LevelUpLoop(p) == IF NeedsLevelUp(p) THEN LevelUpLoop(level_up(p)) ELSE p

\* Profile.add_xp up to its save(): the object that save() writes.
add_xp(p, amount) == LevelUpLoop([p EXCEPT !.total_xp = @ + amount])


\* The add_xp exercise at rest (the other specifications leave it so).
XpIdle ==
    /\ xpPc = "idle"
    /\ xpSelf = NewProfile
    /\ xpBefore = NewProfile
    /\ xpAmount = 0
    /\ xpRow = NewProfile

----------------------------------------------------------------------------
(* The clock.  A datetime is a count of instants, DayLen of them to a      *)
(* calendar day; date() keeps the day.                                     *)

DayLen == 2
MaxTime == 7

\* datetime.date()
date(t) == t \div DayLen

\* (a - b).days for two dates
days_between(a, b) == a - b

\* A null DateTimeField.
None == -1

\* The callers that may be at work at once.
Requests == {1, 2}

\* Time passes, up to the instant last.
Tick(last, frame) ==
    /\ now < last
    /\ now' = now + 1
    /\ frame

----------------------------------------------------------------------------
(* Quest (models.py 79-146) and the table of canned quests                 *)
(* (utils.py 268-336).                                                     *)

\* The reward column of each stat.
RewardField ==
    [strength |-> "reward_strength", intelligence |-> "reward_intelligence",
     charisma |-> "reward_charisma", endurance |-> "reward_endurance",
     luck |-> "reward_luck"]

\* A null in an integer column.
NullInt == -999999

\* Python's "x or 0" on an integer or None.
or_zero(x) == IF x = NullInt THEN 0 ELSE x

\* Quest.objects.create(...) with integer rewards: a row, not completed.
NewQuest(title, quest_type, xp, st, in, ch, en, lu, due, by_ai) ==
    [title |-> title, quest_type |-> quest_type, reward_xp |-> xp,
     reward_strength |-> st, reward_intelligence |-> in,
     reward_charisma |-> ch, reward_endurance |-> en, reward_luck |-> lu,
     completed |-> FALSE, completed_at |-> None, due_date |-> due,
     generated_by_ai |-> by_ai]

\* fallback_quests: (title, reward_xp, strength, intelligence, charisma,
\* endurance, luck), a reward the entry does not name being 0.
FallbackTable ==
    << <<"Knowledge Seeker", 15, 0, 2, 0, 1, 0>>,
       <<"Physical Challenge", 20, 2, 0, 0, 2, 0>>,
       <<"Social Connection", 12, 0, 0, 2, 0, 1>>,
       <<"Mindful Moment", 10, 0, 1, 0, 1, 0>>,
       <<"Creative Expression", 18, 0, 1, 1, 0, 1>> >>

\* timezone.now().date() with the day not added.
due_same_day(t) == date(t) * DayLen

\* timezone.now().date() + timedelta(days=1), read back as a datetime.
due_tomorrow(t) == (date(t) + 1) * DayLen

\* generate_fallback_quests(profile, create_objects=True): the rows it adds.
FallbackRows(t) ==
    [i \in 1..Len(FallbackTable) |->
        NewQuest(FallbackTable[i][1], "daily", FallbackTable[i][2],
                 FallbackTable[i][3], FallbackTable[i][4], FallbackTable[i][5],
                 FallbackTable[i][6], FallbackTable[i][7],
                 due_tomorrow(t), FALSE)]

\* The view's expiry test: a daily quest whose due date is before today.
expired(q, t) ==
    /\ q.quest_type = "daily"
    /\ q.due_date # None
    /\ date(q.due_date) < date(t)

\* The stat lines of complete_quest with the rewards taken off.
add_stat_rewards_negated(p, q) ==
    [f \in DOMAIN p |->
        IF f \in StatNames THEN p[f] - or_zero(q[RewardField[f]]) ELSE p[f]]

\* complete_quest's five "self.profile.<stat> += (self.reward_<stat> or 0)".
add_stat_rewards(p, q) ==
    [f \in DOMAIN p |->
        IF f \in StatNames THEN p[f] + or_zero(q[RewardField[f]]) ELSE p[f]]

\* complete_quest's "self.profile.add_xp(self.reward_xp or 0)" up to the
\* save inside add_xp.
add_xp_reward(p, q) == add_xp(p, or_zero(q.reward_xp))

IdleQuestRequest ==
    [pc |-> "idle", entry |-> "", quest |-> 0,
     self |-> NewQuest("", "", 0, 0, 0, 0, 0, 0, None, FALSE),
     profile |-> NewProfile, before |-> NewProfile,
     questBefore |-> NewQuest("", "", 0, 0, 0, 0, 0, 0, None, FALSE),
     at |-> 0, ret |-> "none", response |-> "none", new_level |-> 0]

\* No generate_daily_quests or parse_ai_action call has been made.
NoCall ==
    [op |-> "none", path |-> "", args |-> << >>, returned |-> << >>,
     action |-> << >>, raised |-> FALSE]

\* The game tables at rest (the specifications of a single method leave
\* them so).
\* No deferred job has run: the character exists with the default class,
\* registration, nobody has chatted and no status effect is stored.
NoJob == [op |-> "none"]

SideIdle ==
    /\ profileExists = TRUE
    /\ character_class = "Novice Adventurer"
    /\ dbChat = << >>
    /\ lastJob = NoJob
    /\ dbEffects = << >>

GameIdle ==
    /\ SideIdle
    /\ dbProfile = NewProfile
    /\ dbQuests = << >>
    /\ dbLog = EmptyBag
    /\ qreq = [r \in Requests |-> IdleQuestRequest]
    /\ faults = 0
    /\ lastCall = NoCall

----------------------------------------------------------------------------
(* Habit (models.py 149-196).                                              *)

MaxHabits == 1

\* Habit.objects.create(...): a row with the field defaults.
NewHabit(name, from_chat, suggested) ==
    [name |-> name, streak_count |-> 0, total_completions |-> 0,
     last_completed |-> None, created_from_chat |-> from_chat,
     ai_suggested |-> suggested]

IdleHabitRequest ==
    [pc |-> "idle", habit |-> 0, self |-> NewHabit("", FALSE, FALSE),
     before |-> NewHabit("", FALSE, FALSE), at |-> 0, ret |-> FALSE]

HabitsIdle ==
    /\ dbHabits = << >>
    /\ hreq = [r \in Requests |-> IdleHabitRequest]

\* The same-day test comparing the two datetimes themselves.
completed_same_instant(h, t) ==
    h.last_completed # None /\ h.last_completed = t

\* complete_today's guard: self.last_completed and
\* self.last_completed.date() == now.date()
completed_on_date(h, t) ==
    h.last_completed # None /\ date(h.last_completed) = date(t)

\* A streak that a gap does not reset.
streak_never_reset(h, t) == h.streak_count + 1

\* complete_today's streak update.
next_streak(h, t) ==
    IF h.last_completed # None
       /\ days_between(date(t), date(h.last_completed)) = 1
    THEN h.streak_count + 1
    ELSE 1

\* A completion that is not counted.
completed_habit_uncounted(h, t) ==
    [h EXCEPT !.streak_count = next_streak(h, t), !.last_completed = t]

\* The Habit object after a successful complete_today at time t.
completed_habit(h, t) ==
    [h EXCEPT !.streak_count = next_streak(h, t),
              !.last_completed = t,
              !.total_completions = @ + 1]

\* Everything but the Habit table, the callers and the clock.
HabitFrame == UNCHANGED <<xpVars, gameVars, sideVars>>

\* A caller fetches the habit: its object is a copy of the row.
HabitLoad(r, h) ==
    /\ hreq[r].pc = "idle"
    /\ h \in 1..Len(dbHabits)
    /\ hreq' = [hreq EXCEPT ![r] = [pc |-> "loaded", habit |-> h,
                                    self |-> dbHabits[h], before |-> dbHabits[h],
                                    at |-> now, ret |-> FALSE]]
    /\ UNCHANGED <<now, dbHabits>>
    /\ HabitFrame

\* Habit.complete_today on the caller's object: reads the clock, returns
\* False on a second call of the day, else updates the object and saves it.
complete_today(r) ==
    /\ hreq[r].pc = "loaded"
    /\ LET self == hreq[r].self
           h == hreq[r].habit
       IN  IF completed_on_date(self, now)
           THEN /\ hreq' = [hreq EXCEPT ![r].pc = "done", ![r].at = now,
                                        ![r].ret = FALSE]
                /\ UNCHANGED dbHabits
           ELSE /\ hreq' = [hreq EXCEPT ![r].pc = "done", ![r].at = now,
                                        ![r].ret = TRUE,
                                        ![r].self = completed_habit(self, now)]
                /\ dbHabits' = [dbHabits EXCEPT ![h] = completed_habit(self, now)]
    /\ UNCHANGED now
    /\ HabitFrame

\* The caller has its answer and drops the object.
HabitReturn(r) ==
    /\ hreq[r].pc = "done"
    /\ hreq' = [hreq EXCEPT ![r] = IdleHabitRequest]
    /\ UNCHANGED <<now, dbHabits>>
    /\ HabitFrame

HabitTick == Tick(MaxTime, UNCHANGED habitVars /\ HabitFrame)

\* One caller at a time: each call works on a freshly loaded object.
HabitInit ==
    /\ now = 0
    /\ dbHabits = [h \in 1..MaxHabits |-> NewHabit("habit", FALSE, FALSE)]
    /\ hreq = [r \in Requests |-> IdleHabitRequest]
    /\ XpIdle
    /\ GameIdle

HabitNext ==
    \/ \E h \in 1..MaxHabits : HabitLoad(1, h)
    \/ complete_today(1)
    \/ HabitReturn(1)
    \/ HabitTick

SpecHabit == HabitInit /\ [][HabitNext]_vars

----------------------------------------------------------------------------
(* Properties of complete_today (SpecHabit).                               *)

\* C9: a complete_today call on a habit whose last_completed is on the same
\* calendar date as now returns False and leaves the stored streak_count,
\* total_completions and last_completed as they were.
C9_SecondCallSameDayRejected ==
    \A r \in Requests :
        (/\ hreq[r].pc = "done"
         /\ hreq[r].before.last_completed # None
         /\ date(hreq[r].before.last_completed) = date(hreq[r].at)) =>
            /\ hreq[r].ret = FALSE
            /\ dbHabits[hreq[r].habit] = hreq[r].before
            /\ hreq[r].self = hreq[r].before

\* A second call later on the day of the first one, turned down.
C9_Witness ==
    \E r \in Requests :
        /\ hreq[r].pc = "done"
        /\ hreq[r].ret = FALSE
        /\ hreq[r].before.total_completions = 1
        /\ hreq[r].at > hreq[r].before.last_completed
        /\ date(hreq[r].before.last_completed) = date(hreq[r].at)

\* C10: a complete_today call that returns True stores streak_count + 1 when
\* last_completed is on the day before today and 1 otherwise (no completion
\* yet, or a gap of more than a day), total_completions + 1 and
\* last_completed = now.
C10_StreakUpdate ==
    \A r \in Requests :
        (hreq[r].pc = "done" /\ hreq[r].ret = TRUE) =>
            LET old == hreq[r].before
                new == dbHabits[hreq[r].habit]
                yesterday == /\ old.last_completed # None
                             /\ old.last_completed \div DayLen
                                  = (hreq[r].at \div DayLen) - 1
            IN  /\ new.streak_count =
                       IF yesterday THEN old.streak_count + 1 ELSE 1
                /\ new.total_completions = old.total_completions + 1
                /\ new.last_completed = hreq[r].at

\* A streak of two broken by a day without a completion.
C10_Witness ==
    \E r \in Requests :
        /\ hreq[r].pc = "done"
        /\ hreq[r].ret = TRUE
        /\ hreq[r].before.streak_count = 2
        /\ date(hreq[r].at) - date(hreq[r].before.last_completed) = 2
        /\ dbHabits[hreq[r].habit].streak_count = 1


----------------------------------------------------------------------------
(* add_xp step by step, on characters and amounts drawn from bounded sets. *)

MaxThreshold == 6
MaxAmount == 13
MaxStartLevel == 2

\* Grants at the scale of the default threshold.
LargeAmounts == {0, 1, 9999, 10000, 10001, 21999, 22000, 25000, 36400}

\* (xp_to_next_level, total_xp, amount): total_xp below the threshold, the
\* threshold positive.  The admin form edits level and xp_to_next_level, so
\* small thresholds are states a character can be in.
XpInputs ==
    {<<t, x, a>> : t \in 1..MaxThreshold, x \in 0..MaxThreshold, a \in 0..MaxAmount}
    \cup {<<DefaultXpToNextLevel, x, a>> : x \in {0, 9999}, a \in LargeAmounts}

\* add_xp touches the Profile alone.
XpFrame == UNCHANGED <<now, habitVars, gameVars, sideVars>>

XpInit ==
    /\ xpPc = "ready"
    /\ \E in \in XpInputs, l \in DefaultLevel..MaxStartLevel :
          /\ in[2] < in[1]
          /\ xpSelf = [NewProfile EXCEPT !.level = l, !.xp_to_next_level = in[1],
                                         !.total_xp = in[2]]
          /\ xpAmount = in[3]
    /\ xpBefore = xpSelf
    /\ xpRow = xpSelf
    /\ now = 0
    /\ HabitsIdle
    /\ GameIdle

\* self.total_xp += amount
XpAdd ==
    /\ xpPc = "ready"
    /\ xpSelf' = [xpSelf EXCEPT !.total_xp = @ + xpAmount]
    /\ xpPc' = "loop"
    /\ UNCHANGED <<xpBefore, xpAmount, xpRow>>
    /\ XpFrame

\* while self.total_xp >= self.xp_to_next_level: self.level_up()
XpLevelUp ==
    /\ xpPc = "loop"
    /\ NeedsLevelUp(xpSelf)
    /\ xpSelf' = level_up(xpSelf)
    /\ UNCHANGED <<xpPc, xpBefore, xpAmount, xpRow>>
    /\ XpFrame

\* self.save(), once the loop has ended
XpSave ==
    /\ xpPc = "loop"
    /\ ~NeedsLevelUp(xpSelf)
    /\ xpRow' = xpSelf
    /\ xpPc' = "done"
    /\ UNCHANGED <<xpSelf, xpBefore, xpAmount>>
    /\ XpFrame

XpNext == XpAdd \/ XpLevelUp \/ XpSave

SpecXp == XpInit /\ [][XpNext]_vars

----------------------------------------------------------------------------
(* Properties of add_xp (SpecXp).                                          *)

\* The grants for which the call's precondition holds: a non-negative
\* amount on a character with 0 <= total_xp < xp_to_next_level.
XpPrecondition ==
    /\ xpAmount >= 0
    /\ xpBefore.xp_to_next_level > 0
    /\ 0 <= xpBefore.total_xp
    /\ xpBefore.total_xp < xpBefore.xp_to_next_level

\* C4: after add_xp(amount) with amount >= 0 on a character with
\* 0 <= total_xp < xp_to_next_level, total_xp < xp_to_next_level holds again
\* (in the object and in the saved row) and level has not gone down.
C4_AddXpRestoresInvariant ==
    (xpPc = "done" /\ XpPrecondition) =>
        /\ xpSelf.total_xp < xpSelf.xp_to_next_level
        /\ xpRow.total_xp < xpRow.xp_to_next_level
        /\ xpSelf.level >= xpBefore.level
        /\ xpRow.level >= xpBefore.level

\* A grant that landed exactly on the threshold and levelled up.
C4_Witness ==
    /\ xpPc = "done"
    /\ XpPrecondition
    /\ xpBefore.total_xp + xpAmount = xpBefore.xp_to_next_level
    /\ xpSelf.level = xpBefore.level + 1
    /\ xpSelf.total_xp = 0

\* The threshold after one level-up, as the specification words it: 1.2 times the
\* threshold, truncated.
TwelveTenths(t) == (t * 12) \div 10

RECURSIVE LevelUpsFor(_, _)
\* How many times "level up while total_xp >= xp_to_next_level" runs from
\* total_xp = xp under threshold thr.
LevelUpsFor(xp, thr) ==
    IF xp >= thr THEN 1 + LevelUpsFor(xp - thr, TwelveTenths(thr)) ELSE 0

RECURSIVE ThresholdAfter(_, _)
\* The threshold after k level-ups.
ThresholdAfter(thr, k) ==
    IF k = 0 THEN thr ELSE ThresholdAfter(TwelveTenths(thr), k - 1)

RECURSIVE XpConsumed(_, _)
\* The XP that k level-ups take away: the sum of the k thresholds crossed.
XpConsumed(thr, k) ==
    IF k = 0 THEN 0 ELSE thr + XpConsumed(TwelveTenths(thr), k - 1)

\* C5: add_xp(amount) ends in the state reached by adding amount to total_xp
\* and levelling up while total_xp >= xp_to_next_level: k level-ups raise
\* level and each stat by k, take the k thresholds crossed off total_xp and
\* leave the threshold grown k times; from (level 1, total_xp 0, threshold
\* 10000) a grant of 25000 ends at level 3, total_xp 3000, threshold 14400
\* and +2 on each stat.
C5_AddXpIsTheCascade ==
    xpPc = "done" =>
        LET k == LevelUpsFor(xpBefore.total_xp + xpAmount, xpBefore.xp_to_next_level)
        IN  /\ xpSelf.level = xpBefore.level + k
            /\ xpSelf.total_xp = xpBefore.total_xp + xpAmount
                                   - XpConsumed(xpBefore.xp_to_next_level, k)
            /\ xpSelf.xp_to_next_level = ThresholdAfter(xpBefore.xp_to_next_level, k)
            /\ \A s \in StatNames : xpSelf[s] = xpBefore[s] + k
            /\ xpRow = xpSelf
            /\ (xpBefore = NewProfile /\ xpAmount = 25000) =>
                   /\ xpSelf.level = 3
                   /\ xpSelf.total_xp = 3000
                   /\ xpSelf.xp_to_next_level = 14400
                   /\ \A s \in StatNames : xpSelf[s] = DefaultStat + 2

\* The grant of 25000 to a new character, after its two level-ups.
C5_Witness ==
    /\ xpPc = "done"
    /\ xpBefore = NewProfile
    /\ xpAmount = 25000
    /\ xpSelf.level = 3

----------------------------------------------------------------------------
(* generate_daily_quests (utils.py 192-265).  The AI's reply is what the   *)
(* function makes of it: no bracketed array in it ("prose", which is also  *)
(* what a failed request to the AI service gives), a bracketed text that   *)
(* json.loads rejects ("badjson"), or an array of items.  A JSON value is  *)
(* (t, v): its type and, for a number, its value (a float in tenths).      *)

Missing == [t |-> "missing", v |-> 0]
IntVal(n) == [t |-> "int", v |-> n]
FloatTenths(n) == [t |-> "float", v |-> n]
NumStr(n) == [t |-> "numstr", v |-> n]
TextVal == [t |-> "str", v |-> 0]
NullVal == [t |-> "null", v |-> 0]

\* One element of the array: a dict with its title and its six rewards (a
\* key it lacks is Missing), or something that is no dict.
Item(isdict, title, xp, st, in, ch, en, lu) ==
    [isdict |-> isdict, title |-> title, reward_xp |-> xp,
     reward_strength |-> st, reward_intelligence |-> in,
     reward_charisma |-> ch, reward_endurance |-> en, reward_luck |-> lu]

RewardKeys ==
    {"reward_xp", "reward_strength", "reward_intelligence", "reward_charisma",
     "reward_endurance", "reward_luck"}

DefaultRewardXp == 15
DefaultRewardStat == 0

\* quest_data.get(key, default) for a reward key.
get_reward(item, key) ==
    IF item[key].t = "missing"
    THEN IntVal(IF key = "reward_xp" THEN DefaultRewardXp ELSE DefaultRewardStat)
    ELSE item[key]

\* quest_data.get('title', 'Daily Challenge')
get_title(item) == IF item.title = "" THEN "Daily Challenge" ELSE item.title

\* What an IntegerField stores for a value: int(value).
to_int(val) ==
    IF val.t = "float"
    THEN (IF val.v >= 0 THEN val.v \div 10 ELSE -((-val.v) \div 10))
    ELSE val.v

\* Whether Quest.objects.create accepts the value in an integer column: a
\* text that is no number makes int() raise, a null breaks NOT NULL.
storable(val) == val.t \in {"int", "float", "numstr"}

\* Whether the loop body runs through for the item: a non-dict has no
\* .get, and every reward must be storable.
creatable(item) ==
    /\ item.isdict
    /\ \A k \in RewardKeys : storable(get_reward(item, k))

\* The row the loop creates for an item.
ai_row(item, t) ==
    NewQuest(get_title(item), "daily",
             to_int(get_reward(item, "reward_xp")),
             to_int(get_reward(item, "reward_strength")),
             to_int(get_reward(item, "reward_intelligence")),
             to_int(get_reward(item, "reward_charisma")),
             to_int(get_reward(item, "reward_endurance")),
             to_int(get_reward(item, "reward_luck")),
             due_tomorrow(t), TRUE)

\* The Quest object the loop appends to created_quests: the attributes are
\* the values as passed, not as stored.
ai_object(item) ==
    [title |-> get_title(item), generated_by_ai |-> TRUE,
     reward_xp |-> get_reward(item, "reward_xp"),
     reward_strength |-> get_reward(item, "reward_strength"),
     reward_intelligence |-> get_reward(item, "reward_intelligence"),
     reward_charisma |-> get_reward(item, "reward_charisma"),
     reward_endurance |-> get_reward(item, "reward_endurance"),
     reward_luck |-> get_reward(item, "reward_luck")]

\* The Quest objects generate_fallback_quests(create_objects=True) returns.
FallbackObjects ==
    [i \in 1..Len(FallbackTable) |->
        [title |-> FallbackTable[i][1], generated_by_ai |-> FALSE,
         reward_xp |-> IntVal(FallbackTable[i][2]),
         reward_strength |-> IntVal(FallbackTable[i][3]),
         reward_intelligence |-> IntVal(FallbackTable[i][4]),
         reward_charisma |-> IntVal(FallbackTable[i][5]),
         reward_endurance |-> IntVal(FallbackTable[i][6]),
         reward_luck |-> IntVal(FallbackTable[i][7])]]

\* A reward of a canned quest as its dict holds it: a zero is a key the
\* dict lacks.
FallbackVal(n) == IF n = 0 THEN Missing ELSE IntVal(n)

\* generate_fallback_quests(profile): the canned quests as dicts.
FallbackItems ==
    [i \in 1..Len(FallbackTable) |->
        Item(TRUE, FallbackTable[i][1], IntVal(FallbackTable[i][2]),
             FallbackVal(FallbackTable[i][3]), FallbackVal(FallbackTable[i][4]),
             FallbackVal(FallbackTable[i][5]), FallbackVal(FallbackTable[i][6]),
             FallbackVal(FallbackTable[i][7]))]

\* The index of the first item the loop fails on, 0 when there is none.
first_bad(items) ==
    IF \A i \in 1..Len(items) : creatable(items[i]) THEN 0
    ELSE CHOOSE i \in 1..Len(items) :
            /\ ~creatable(items[i])
            /\ \A j \in 1..(i - 1) : creatable(items[j])

\* quests_data: the parsed array, or the canned dicts when the reply holds
\* no array.
quests_data(reply) == IF reply.kind = "prose" THEN FallbackItems ELSE reply.items

\* Whether the try block raises: json.loads on a bad array, or the loop on
\* a bad item.
generation_raises(reply) ==
    \/ reply.kind = "badjson"
    \/ reply.kind = "array" /\ first_bad(reply.items) # 0

\* The rows the loop has created when it ends or raises.
loop_rows(reply, t) ==
    IF reply.kind = "badjson" THEN << >>
    ELSE LET data == quests_data(reply)
             bad == first_bad(data)
             n == IF bad = 0 THEN Len(data) ELSE bad - 1
         IN  [i \in 1..n |-> ai_row(data[i], t)]

\* Every row one call adds to the Quest table: those of the loop, then,
\* when the try block raised, the canned quests of the except branch.
generated_rows(reply, t) ==
    IF generation_raises(reply)
    THEN loop_rows(reply, t) \o FallbackRows(t)
    ELSE loop_rows(reply, t)

\* The list the call returns.
generated_objects(reply) ==
    IF generation_raises(reply) THEN FallbackObjects
    ELSE LET data == quests_data(reply)
         IN  [i \in 1..Len(data) |-> ai_object(data[i])]

MaxQuests == 2

\* generate_daily_quests(profile, count) on a reply of the AI.
generate_daily_quests(reply, cap, frame) ==
    /\ Len(dbQuests) + Len(generated_rows(reply, now)) <= cap
    /\ dbQuests' = dbQuests \o generated_rows(reply, now)
    /\ lastCall' = [op |-> "generate",
                    path |-> IF generation_raises(reply) THEN "except"
                             ELSE IF reply.kind = "prose" THEN "no_array"
                             ELSE "array",
                    args |-> <<dbQuests>>,
                    returned |-> generated_objects(reply),
                    action |-> << >>, raised |-> FALSE]
    /\ frame

----------------------------------------------------------------------------
(* complete_quest, query by query: the view (views.py 338-405) and the     *)
(* method (models.py 126-146).  A caller is a request to the view          *)
(* (entry "view") or a direct call of the method on a fetched quest        *)
(* (entry "method").                                                       *)

MaxFaults == 2

\* What a step of complete_quest leaves alone outside the game tables.
QuestFrame == UNCHANGED <<xpVars, habitVars, lastCall, sideVars>>

\* The view's answer before the method is called: "" when it goes on to
\* call it.
view_guard(q, t) ==
    IF q.completed THEN "already_completed"
    ELSE IF expired(q, t) THEN "expired"
    ELSE ""

\* get_object_or_404(Quest, ...): the caller's Quest object is a copy of the
\* row; the view then answers at once for a completed or an expired quest.
QuestLoad(r, q, entry) ==
    /\ qreq[r].pc = "idle"
    /\ q \in 1..Len(dbQuests)
    /\ LET guard == IF entry = "view" THEN view_guard(dbQuests[q], now) ELSE ""
       IN  qreq' = [qreq EXCEPT ![r] =
                [IdleQuestRequest EXCEPT
                    !.pc = IF guard = "" THEN "call" ELSE "done",
                    !.entry = entry, !.quest = q, !.self = dbQuests[q],
                    !.before = dbProfile, !.questBefore = dbQuests[q],
                    !.at = now,
                    !.response = IF guard = "" THEN "none" ELSE guard]]
    /\ UNCHANGED <<now, dbProfile, dbQuests, dbLog, faults>>
    /\ QuestFrame

\* The guard of complete_quest read the wrong way round.
quest_open_inverted(q) == q.completed

\* complete_quest's guard: "if not self.completed".
quest_open(q) == ~q.completed

\* complete_quest up to the first write: on an open quest it sets completed
\* and completed_at on the object, fetches self.profile and runs add_xp on
\* that object as far as its save(); on a completed one it returns False.
complete_quest(r) ==
    /\ qreq[r].pc = "call"
    /\ IF quest_open(qreq[r].self)
       THEN qreq' = [qreq EXCEPT
                ![r].pc = "save_xp",
                ![r].at = now,
                ![r].self = [@ EXCEPT !.completed = TRUE, !.completed_at = now],
                ![r].before = dbProfile,
                ![r].profile = add_xp_reward(dbProfile, qreq[r].self)]
       ELSE qreq' = [qreq EXCEPT
                ![r].pc = "done",
                ![r].ret = "false",
                ![r].response = IF qreq[r].entry = "view" THEN "failed" ELSE "none"]
    /\ UNCHANGED <<now, dbProfile, dbQuests, dbLog, faults>>
    /\ QuestFrame

\* The save() that ends add_xp; the five stat rewards are then added to the
\* object.
add_xp_save(r) ==
    /\ qreq[r].pc = "save_xp"
    /\ dbProfile' = qreq[r].profile
    /\ qreq' = [qreq EXCEPT ![r].pc = "save_stats",
                            ![r].profile = add_stat_rewards(@, qreq[r].self)]
    /\ UNCHANGED <<now, dbQuests, dbLog, faults>>
    /\ QuestFrame

\* self.profile.save()
profile_save(r) ==
    /\ qreq[r].pc = "save_stats"
    /\ dbProfile' = qreq[r].profile
    /\ qreq' = [qreq EXCEPT ![r].pc = "save_quest"]
    /\ UNCHANGED <<now, dbQuests, dbLog, faults>>
    /\ QuestFrame

\* self.save() and "return True".
quest_save(r) ==
    /\ qreq[r].pc = "save_quest"
    /\ dbQuests' = [dbQuests EXCEPT ![qreq[r].quest] = qreq[r].self]
    /\ qreq' = [qreq EXCEPT ![r].pc = IF qreq[r].entry = "view" THEN "log" ELSE "done",
                            ![r].ret = "true"]
    /\ UNCHANGED <<now, dbProfile, dbLog, faults>>
    /\ QuestFrame

\* The view's LogEntry.objects.create(...).
log_create(r) ==
    /\ qreq[r].pc = "log"
    /\ dbLog' = dbLog (+) SetToBag({[action_type |-> "quest_completed",
                                      xp_gained |-> qreq[r].self.reward_xp]})
    /\ qreq' = [qreq EXCEPT ![r].pc = "refresh"]
    /\ UNCHANGED <<now, dbProfile, dbQuests, faults>>
    /\ QuestFrame

\* The view's profile.refresh_from_db() and its answer.
refresh_from_db(r) ==
    /\ qreq[r].pc = "refresh"
    /\ qreq' = [qreq EXCEPT ![r].pc = "done", ![r].response = "success",
                            ![r].new_level = dbProfile.level]
    /\ UNCHANGED <<now, dbProfile, dbQuests, dbLog, faults>>
    /\ QuestFrame

\* A write that raises: nothing of the call is undone, the method raises
\* and the view answers 500 from its "except Exception".
persist_fails(r) ==
    /\ qreq[r].pc \in {"save_xp", "save_stats", "save_quest", "log"}
    /\ faults < MaxFaults
    /\ faults' = faults + 1
    /\ qreq' = [qreq EXCEPT ![r].pc = "done",
                            ![r].ret = IF qreq[r].pc = "log" THEN "true" ELSE "raised",
                            ![r].response = IF qreq[r].entry = "view" THEN "error" ELSE "none"]
    /\ UNCHANGED <<now, dbProfile, dbQuests, dbLog>>
    /\ QuestFrame

\* The caller has its answer and drops its objects.
QuestReturn(r) ==
    /\ qreq[r].pc = "done"
    /\ qreq' = [qreq EXCEPT ![r] = IdleQuestRequest]
    /\ UNCHANGED <<now, dbProfile, dbQuests, dbLog, faults>>
    /\ QuestFrame

\* No caller is at work.
AllIdle == \A r \in Requests : qreq[r].pc = "idle"

MaxGameDay == 2

\* Midnight comes: quests only look at the date.
NextDay ==
    /\ date(now) < MaxGameDay
    /\ now' = (date(now) + 1) * DayLen
    /\ UNCHANGED gameVars
    /\ QuestFrame

----------------------------------------------------------------------------
(* Two requests to the view at once, each for one of the canned quests of  *)
(* a new character.                                                        *)

ConcInit ==
    /\ now = 0
    /\ dbProfile = NewProfile
    /\ dbQuests = FallbackRows(0)
    /\ dbLog = EmptyBag
    /\ qreq = [r \in Requests |-> IdleQuestRequest]
    /\ faults = 0
    /\ lastCall = NoCall
    /\ SideIdle
    /\ XpIdle
    /\ HabitsIdle

ConcNext ==
    \E r \in Requests :
        \/ \E q \in 1..Len(FallbackTable) : QuestLoad(r, q, "view")
        \/ complete_quest(r)
        \/ add_xp_save(r)
        \/ profile_save(r)
        \/ quest_save(r)
        \/ log_create(r)
        \/ refresh_from_db(r)

SpecConc == ConcInit /\ [][ConcNext]_vars

\* The Profile after quest row q has been rewarded once.
RewardedOnce(p, q) == add_stat_rewards(add_xp(p, q.reward_xp), q)

\* C2: two requests that complete the same quest at once leave the
\* character with that quest's XP and stat rewards exactly once.
C2_ConcurrentSameQuestOnce ==
    \A r1, r2 \in Requests :
        (/\ r1 # r2
         /\ qreq[r1].pc = "done"
         /\ qreq[r2].pc = "done"
         /\ qreq[r1].quest = qreq[r2].quest) =>
            dbProfile = RewardedOnce(NewProfile, dbQuests[qreq[r1].quest])

\* C7: two requests that complete two different quests of one character at
\* once leave the character with both quests' XP and stat rewards.
C7_ConcurrentQuestsBothKept ==
    \A r1, r2 \in Requests :
        (/\ r1 # r2
         /\ qreq[r1].pc = "done"
         /\ qreq[r2].pc = "done"
         /\ qreq[r1].quest # qreq[r2].quest) =>
            dbProfile = RewardedOnce(RewardedOnce(NewProfile, dbQuests[qreq[r1].quest]),
                                     dbQuests[qreq[r2].quest])

----------------------------------------------------------------------------
(* Two callers of complete_today at once, each with its own copy of the    *)
(* habit row.                                                              *)

HabitConcNext ==
    \/ \E r \in Requests :
          \/ \E h \in 1..MaxHabits : HabitLoad(r, h)
          \/ complete_today(r)
          \/ HabitReturn(r)
    \/ HabitTick

SpecHabitConc == HabitInit /\ [][HabitConcNext]_vars

----------------------------------------------------------------------------
(* parse_ai_action (utils.py): the text of a reply.                        *)
(*                                                                         *)
(* A string the program scans is a sequence of one-character strings, so   *)
(* that lower(), title(), slicing and substring search are computed.  A    *)
(* reply is a sequence of tokens written with one space between them, on   *)
(* one line:                                                               *)
(*    Word(s)       s                                                      *)
(*    Marker(n, s)  +n s      (decimal digits, one space, a word)          *)
(*    Quoted(s)     "s"       (s not empty, of letters, spaces and _)      *)
(*    Number(n)     n                                                      *)
(*    Colon  :    Comma  ,    LBrace  {    RBrace  }                       *)
(* Titles and names the program only stores are written as plain strings.  *)

Uppers ==
    <<"A", "B", "C", "D", "E", "F", "G", "H", "I", "J", "K", "L", "M",
      "N", "O", "P", "Q", "R", "S", "T", "U", "V", "W", "X", "Y", "Z">>

Lowers ==
    <<"a", "b", "c", "d", "e", "f", "g", "h", "i", "j", "k", "l", "m",
      "n", "o", "p", "q", "r", "s", "t", "u", "v", "w", "x", "y", "z">>

IndexIn(letters, c) == CHOOSE i \in 1..Len(letters) : letters[i] = c

IsUpper(c) == \E i \in 1..Len(Uppers) : Uppers[i] = c

IsLower(c) == \E i \in 1..Len(Lowers) : Lowers[i] = c

lower_char(c) == IF IsUpper(c) THEN Lowers[IndexIn(Uppers, c)] ELSE c

upper_char(c) == IF IsLower(c) THEN Uppers[IndexIn(Lowers, c)] ELSE c

\* str.lower()
lower(s) == [i \in 1..Len(s) |-> lower_char(s[i])]

\* str.title(): a letter after a character that is not a letter (or first)
\* is upper-cased, every other letter lower-cased.
title(s) ==
    [i \in 1..Len(s) |->
        IF i = 1 \/ ~(IsUpper(s[i - 1]) \/ IsLower(s[i - 1]))
        THEN upper_char(s[i])
        ELSE lower_char(s[i])]

\* s[:n]
first_chars(s, n) == SubSeq(s, 1, IF Len(s) < n THEN Len(s) ELSE n)

starts_with(s, p) == Len(s) >= Len(p) /\ SubSeq(s, 1, Len(p)) = p

ends_with(s, p) == Len(s) >= Len(p) /\ SubSeq(s, Len(s) - Len(p) + 1, Len(s)) = p

\* p occurs in s, ending at or before position last
contains_before(s, p, last) ==
    \E i \in 1..(last - Len(p) + 1) : SubSeq(s, i, i + Len(p) - 1) = p

contains(s, p) == contains_before(s, p, Len(s))

\* name__icontains
icontains(name, part) == contains(lower(name), lower(part))

Word(s) == [k |-> "word", s |-> s, n |-> 0]

Marker(n, s) == [k |-> "marker", s |-> s, n |-> n]

Quoted(s) == [k |-> "quoted", s |-> s, n |-> 0]

Number(n) == [k |-> "number", s |-> << >>, n |-> n]

Colon == [k |-> "colon", s |-> << >>, n |-> 0]

Comma == [k |-> "comma", s |-> << >>, n |-> 0]

LBrace == [k |-> "lbrace", s |-> << >>, n |-> 0]

RBrace == [k |-> "rbrace", s |-> << >>, n |-> 0]

\* ai_response.lower()
lower_text(text) == [i \in 1..Len(text) |-> [text[i] EXCEPT !.s = lower(@)]]

\* The least element of a non-empty set of positions.
Least(S) == CHOOSE i \in S : \A j \in S : i <= j

\* The least position of S, 0 when there is none.
LeastOrNone(S) == IF S = {} THEN 0 ELSE Least(S)

----------------------------------------------------------------------------
(* parse_ai_action: the JSON object of the reply.                          *)

\* re.search(r'\{[^}]*\}', ai_response): from the first "{" that has a "}"
\* after it to the first "}" after it; inner is what lies between them.
json_match(text) ==
    LET opens == {i \in 1..Len(text) :
                    /\ text[i].k = "lbrace"
                    /\ \E j \in (i + 1)..Len(text) : text[j].k = "rbrace"}
    IN  IF opens = {} THEN [found |-> FALSE, inner |-> << >>]
        ELSE LET i == Least(opens)
                 j == Least({c \in (i + 1)..Len(text) : text[c].k = "rbrace"})
             IN  [found |-> TRUE, inner |-> SubSeq(text, i + 1, j - 1)]

StrVal(s) == [t |-> "str", v |-> s]

BoolVal(b) == [t |-> "bool", v |-> b]

DictVal(d) == [t |-> "dict", v |-> d]

\* Python's truth value of a value of the action map.
truthy(x) ==
    CASE x.t = "str" -> Len(x.v) > 0
      [] x.t = "int" -> x.v # 0
      [] x.t = "bool" -> x.v
      [] x.t = "dict" -> DOMAIN x.v # {}
      [] OTHER -> FALSE

\* The literals true, false and null.
json_literal ==
    [true |-> <<"t", "r", "u", "e">>,
     false |-> <<"f", "a", "l", "s", "e">>,
     null |-> <<"n", "u", "l", "l">>]

\* A token that is a JSON value: a string, a number, true, false or null.
is_json_value(tok) ==
    \/ tok.k \in {"quoted", "number"}
    \/ tok.k = "word" /\ tok.s \in {json_literal[l] : l \in DOMAIN json_literal}

json_value(tok) ==
    CASE tok.k = "quoted" -> StrVal(tok.s)
      [] tok.k = "number" -> IntVal(tok.n)
      [] tok.k = "word" /\ tok.s = json_literal.true -> BoolVal(TRUE)
      [] tok.k = "word" /\ tok.s = json_literal.false -> BoolVal(FALSE)
      [] OTHER -> NullVal

RECURSIVE json_members(_)
\* The members "key": value, ... of an object; ok is FALSE where json.loads
\* raises.
json_members(ts) ==
    IF \/ Len(ts) < 3
       \/ ts[1].k # "quoted"
       \/ ts[2].k # "colon"
       \/ ~is_json_value(ts[3])
    THEN [ok |-> FALSE, pairs |-> << >>]
    ELSE LET pair == <<ts[1].s, json_value(ts[3])>>
         IN  IF Len(ts) = 3 THEN [ok |-> TRUE, pairs |-> <<pair>>]
             ELSE IF ts[4].k # "comma" THEN [ok |-> FALSE, pairs |-> << >>]
             ELSE LET rest == json_members(SubSeq(ts, 5, Len(ts)))
                  IN  [ok |-> rest.ok, pairs |-> <<pair>> \o rest.pairs]

\* json.loads(json_match.group())
json_loads(inner) ==
    IF inner = << >> THEN [ok |-> TRUE, pairs |-> << >>] ELSE json_members(inner)

\* dict.update with the members in order: a later member of a key wins.
dict_update(d, pairs) ==
    LET keys == {pairs[i][1] : i \in 1..Len(pairs)}
        last(key) == CHOOSE i \in 1..Len(pairs) :
                        /\ pairs[i][1] = key
                        /\ \A j \in (i + 1)..Len(pairs) : pairs[j][1] # key
    IN  [key \in DOMAIN d \cup keys |->
            IF key \in keys THEN pairs[last(key)][2] ELSE d[key]]

\* d.get(key), None when the key is absent
dict_get(d, key) == IF key \in DOMAIN d THEN d[key] ELSE NullVal

EmptyDict == << >>

\* action_data after the JSON step: the object's members when the reply
\* holds an object that parses, nothing otherwise.
json_step(text) ==
    LET found == json_match(text)
        loaded == json_loads(found.inner)
    IN  IF found.found /\ loaded.ok THEN dict_update(EmptyDict, loaded.pairs)
        ELSE EmptyDict

----------------------------------------------------------------------------
(* parse_ai_action: the scans of the lower-cased reply.                    *)

\* stat_patterns: '\+(\d+)\s+str' and so on
StatPattern ==
    [strength |-> <<"s", "t", "r">>,
     intelligence |-> <<"i", "n", "t">>,
     charisma |-> <<"c", "h", "r">>,
     endurance |-> <<"e", "n", "d">>,
     luck |-> <<"l", "c", "k">>]

\* '\+(\d+)\s+p': the markers whose word begins with p
marker_matches(ai_lower, p) ==
    {i \in 1..Len(ai_lower) :
        ai_lower[i].k = "marker" /\ starts_with(ai_lower[i].s, p)}

\* stat_gains: each stat whose pattern matches, with the number of its
\* first match.
stat_gains(ai_lower) ==
    LET found == {st \in StatNames : marker_matches(ai_lower, StatPattern[st]) # {}}
    IN  [st \in found |-> ai_lower[Least(marker_matches(ai_lower, StatPattern[st]))].n]

\* The gains found and not added to the character.
apply_stat_gains_dropped(p, gains) == p

\* setattr(profile, stat, current_value + gain) for each stat found
apply_stat_gains(p, gains) ==
    [f \in DOMAIN p |-> IF f \in DOMAIN gains THEN p[f] + gains[f] ELSE p[f]]

\* '\+(\d+)\s+(?:xp|exp)'
xp_matches(ai_lower) ==
    marker_matches(ai_lower, <<"x", "p">>) \cup marker_matches(ai_lower, <<"e", "x", "p">>)

\* The literal words of habit_patterns and quest_patterns.
keyword ==
    [habit |-> <<"h", "a", "b", "i", "t">>,
     called |-> <<"c", "a", "l", "l", "e", "d">>,
     mark |-> <<"m", "a", "r", "k">>,
     in |-> <<"i", "n">>,
     add |-> <<"a", "d", "d">>,
     quest |-> <<"q", "u", "e", "s", "t">>,
     challenge |-> <<"c", "h", "a", "l", "l", "e", "n", "g", "e">>]

\* kw occurs in the token's letters
holds(tok, kw) == tok.k \in {"word", "marker", "quoted"} /\ contains(tok.s, kw)

\* The quoted tokens from position from on that come right after a ":" or
\* after the closing quote of a token at or after from: what
\* '[":]\s*"([^"]+)"' can capture once the keyword before it is matched.
captures_from(ai_lower, from) ==
    {j \in (from + 1)..Len(ai_lower) :
        /\ ai_lower[j].k = "quoted"
        /\ ai_lower[j - 1].k \in {"colon", "quoted"}}

\* 'kw.*?[":]\s*"([^"]+)"': the position of the captured token, 0 for no
\* match.
kw_quoted(ai_lower, kw) ==
    LET starts == {i \in 1..Len(ai_lower) : holds(ai_lower[i], kw)}
    IN  IF starts = {} THEN 0
        ELSE LeastOrNone(captures_from(ai_lower, Least(starts)))

\* 'habit.*?called\s+"([^"]+)"'
habit_called(ai_lower) ==
    LET starts == {i \in 1..Len(ai_lower) : holds(ai_lower[i], keyword.habit)}
        caps(i) == {j \in (i + 1)..Len(ai_lower) :
                      /\ ai_lower[j].k = "quoted"
                      /\ ai_lower[j - 1].k \in {"word", "marker"}
                      /\ ends_with(ai_lower[j - 1].s, keyword.called)
                      /\ \/ j - 1 > i
                         \/ contains_before(ai_lower[i].s, keyword.habit,
                                            Len(ai_lower[i].s) - Len(keyword.called))}
    IN  IF starts = {} THEN 0 ELSE LeastOrNone(caps(Least(starts)))

\* 'mark\s+"([^"]+)"\s+in.*?quest'
mark_in_quest(ai_lower) ==
    LET n == Len(ai_lower)
        caps == {j \in 2..(n - 1) :
                    /\ ai_lower[j].k = "quoted"
                    /\ ai_lower[j - 1].k \in {"word", "marker"}
                    /\ ends_with(ai_lower[j - 1].s, keyword.mark)
                    /\ ai_lower[j + 1].k = "word"
                    /\ starts_with(ai_lower[j + 1].s, keyword.in)
                    /\ \/ contains(SubSeq(ai_lower[j + 1].s, Len(keyword.in) + 1,
                                          Len(ai_lower[j + 1].s)), keyword.quest)
                       \/ \E q \in (j + 2)..n : holds(ai_lower[q], keyword.quest)}
    IN  LeastOrNone(caps)

\* 'add.*?habit.*?[":]\s*"([^"]+)"'
add_habit_quoted(ai_lower) ==
    LET adds == {i \in 1..Len(ai_lower) : holds(ai_lower[i], keyword.add)}
        habits(a) == {h \in a..Len(ai_lower) :
                        /\ holds(ai_lower[h], keyword.habit)
                        /\ \/ h > a
                           \/ \E c \in 1..Len(ai_lower[a].s) :
                                 /\ contains_before(ai_lower[a].s, keyword.add, c)
                                 /\ starts_with(SubSeq(ai_lower[a].s, c + 1,
                                                       Len(ai_lower[a].s)), keyword.habit)}
        first_habit == IF adds = {} THEN 0 ELSE LeastOrNone(habits(Least(adds)))
    IN  IF first_habit = 0 THEN 0
        ELSE LeastOrNone(captures_from(ai_lower, first_habit))

\* for pattern in patterns: ... break -- the capture of the first pattern
\* that matches, 0 when none does.
first_match(captures) ==
    LET hits == {i \in 1..Len(captures) : captures[i] # 0}
    IN  IF hits = {} THEN 0 ELSE captures[Least(hits)]

\* habit_patterns, in order; the first that matches gives the name.
habit_match(ai_lower) ==
    first_match(<<kw_quoted(ai_lower, keyword.habit), habit_called(ai_lower),
                  mark_in_quest(ai_lower), add_habit_quoted(ai_lower)>>)

\* quest_patterns, in order
quest_match(ai_lower) ==
    first_match(<<kw_quoted(ai_lower, keyword.quest), kw_quoted(ai_lower, keyword.challenge)>>)

----------------------------------------------------------------------------
(* parse_ai_action: the whole call.                                        *)

\* The keys the call sets in action_data.
action_key ==
    [habit_created |-> <<"h", "a", "b", "i", "t", "_", "c", "r", "e", "a", "t", "e", "d">>,
     quest_created |-> <<"q", "u", "e", "s", "t", "_", "c", "r", "e", "a", "t", "e", "d">>,
     stat_gains |-> <<"s", "t", "a", "t", "_", "g", "a", "i", "n", "s">>,
     xp |-> <<"x", "p">>]

\* habit_name[:10]
NameSlice == 10

\* reward_xp=15, reward_intelligence=1 of a quest created from a reply
ChatQuestXp == 15

ChatQuestIntelligence == 1

\* The quest row with the due date left out.
chat_quest_undated(quest_title, t) ==
    NewQuest(quest_title, "habit", ChatQuestXp, 0, ChatQuestIntelligence, 0, 0, 0,
             None, TRUE)

\* Quest.objects.create(profile=profile, title=quest_title, ...) of
\* parse_ai_action at time t.
chat_quest(quest_title, t) ==
    NewQuest(quest_title, "habit", ChatQuestXp, 0, ChatQuestIntelligence, 0, 0, 0,
             due_tomorrow(t), TRUE)

\* The steps of parse_ai_action that write to or read from the database,
\* in the order the call reaches them: add_xp's save, the habit lookup and
\* create, the quest create, profile.save() and the LogEntry create.
ChatSteps ==
    [add_xp |-> 1, habit |-> 2, quest |-> 3, save |-> 4, log |-> 5, none |-> 6]

\* The except clause left out: an exception raised at step fail leaves the
\* call.
parse_raises_uncaught(fail) == fail # "none"

\* "except Exception as e: ... return action_data" around the whole body:
\* whether an exception raised at step fail leaves the call.
parse_raises(fail) == FALSE

\* What one call parse_ai_action(ai_response, profile) does at time t with
\* the habits stored for the character, when the step named fail raises if
\* the call reaches it: the character as the call leaves it (saved by
\* add_xp or by profile.save() when saved), the rows it creates and the map
\* it returns.
parse_ai_action(ai_response, profile, habits, t, fail) ==
    LET ai_lower == lower_text(ai_response)
        gains == stat_gains(ai_lower)
        with_stats == apply_stat_gains(profile, gains)
        xp_match == xp_matches(ai_lower) # {}
        xp_gained == IF xp_match THEN ai_lower[Least(xp_matches(ai_lower))].n ELSE 0
        with_xp == IF xp_match THEN add_xp(with_stats, xp_gained) ELSE with_stats
        hm == habit_match(ai_lower)
        habit_name == IF hm = 0 THEN << >> ELSE title(ai_lower[hm].s)
        habit_new ==
            /\ hm # 0
            /\ ~\E h \in 1..Len(habits) :
                  icontains(habits[h].name, first_chars(habit_name, NameSlice))
        qm == quest_match(ai_lower)
        quest_title == IF qm = 0 THEN << >> ELSE title(ai_lower[qm].s)
        \* the step at which the call enters the except clause
        early == IF fail = "add_xp" /\ xp_match THEN ChatSteps.add_xp
                 ELSE IF fail = "habit" /\ hm # 0 THEN ChatSteps.habit
                 ELSE IF fail = "quest" /\ qm # 0 THEN ChatSteps.quest
                 ELSE IF fail = "save" /\ DOMAIN gains # {} THEN ChatSteps.save
                 ELSE ChatSteps.none
        \* the keys the call sets, in the order it sets them
        set_habit == IF habit_new /\ early > ChatSteps.habit
                     THEN <<<<action_key.habit_created, StrVal(habit_name)>>>>
                     ELSE << >>
        set_quest == IF qm # 0 /\ early > ChatSteps.quest
                     THEN <<<<action_key.quest_created, StrVal(quest_title)>>>>
                     ELSE << >>
        set_gains == IF DOMAIN gains # {} /\ early >= ChatSteps.save
                     THEN <<<<action_key.stat_gains, DictVal(gains)>>>>
                     ELSE << >>
        set_xp == IF xp_gained # 0 /\ early > ChatSteps.save
                  THEN <<<<action_key.xp, IntVal(xp_gained)>>>> ELSE << >>
        action_data == dict_update(json_step(ai_response),
                                   set_habit \o set_quest \o set_gains \o set_xp)
        logging == /\ early = ChatSteps.none
                   /\ \/ DOMAIN gains # {}
                      \/ xp_gained # 0
                      \/ \E made \in {action_key.habit_created, action_key.quest_created} :
                            truthy(dict_get(action_data, made))
    IN  [profile |-> with_xp,
         saved |-> \/ xp_match /\ early > ChatSteps.add_xp
                   \/ DOMAIN gains # {} /\ early > ChatSteps.save,
         habits |-> IF set_habit # << >> THEN <<NewHabit(habit_name, TRUE, TRUE)>>
                    ELSE << >>,
         quests |-> IF set_quest # << >>
                    THEN <<chat_quest(quest_title, t)>>
                    ELSE << >>,
         log |-> IF logging /\ fail # "log"
                 THEN SetToBag({[action_type |-> "chat_interaction",
                                 xp_gained |-> xp_gained]})
                 ELSE EmptyBag,
         failed |-> early # ChatSteps.none \/ (logging /\ fail = "log"),
         action_data |-> action_data]

MaxChats == 1

\* The LogEntry rows written by parse_ai_action so far.
ChatLogged ==
    LET chat == {e \in BagToSet(dbLog) : e.action_type = "chat_interaction"}
    IN  BagCardinality([e \in chat |-> dbLog[e]])

\* parse_ai_action(text, profile) on the stored character, as one step, with
\* the step named fail raising; chats, habits and quests cap the tables.
parse_call(text, fail, chats, habits, quests) ==
    LET out == parse_ai_action(text, dbProfile, dbHabits, now, fail)
    IN  /\ ChatLogged + BagCardinality(out.log) <= chats
        /\ out.failed => faults < MaxFaults
        /\ Len(dbHabits) + Len(out.habits) <= habits
        /\ Len(dbQuests) + Len(out.quests) <= quests
        /\ dbProfile' = IF out.saved THEN out.profile ELSE dbProfile
        /\ dbHabits' = dbHabits \o out.habits
        /\ dbQuests' = dbQuests \o out.quests
        /\ dbLog' = dbLog (+) out.log
        /\ lastCall' = [op |-> "parse",
                        path |-> IF out.failed THEN "except" ELSE "return",
                        args |-> <<text, dbProfile, dbHabits, dbQuests, dbLog>>,
                        returned |-> << >>,
                        action |-> out.action_data,
                        raised |-> parse_raises(fail)]
        /\ faults' = IF out.failed THEN faults + 1 ELSE faults
        /\ UNCHANGED <<now, qreq, hreq, xpVars, sideVars>>

\* A chat reply parsed with every step succeeding.
ParseAiAction(text) == parse_call(text, "none", MaxChats, MaxHabits, MaxQuests)

----------------------------------------------------------------------------
(* One caller at a time: a character from its creation on, with quests     *)
(* generated from replies of the AI and completed through the view or by   *)
(* a direct call of the method.                                            *)

MaxArrayLen == 1

\* Items of a reply that the loop accepts: a large XP reward with a stat
\* reward; negative rewards.
PlayItems ==
    { Item(TRUE, "Deep Work", IntVal(25000), Missing, IntVal(2), Missing, Missing, Missing),
      Item(TRUE, "Rest", IntVal(-5), IntVal(-1), Missing, Missing, Missing, Missing) }

RECURSIVE SeqsUpTo(_, _)
\* The sequences over S of length at most n.
SeqsUpTo(S, n) ==
    IF n = 0 THEN {<< >>}
    ELSE LET shorter == SeqsUpTo(S, n - 1)
         IN  shorter \cup {Append(q, x) : q \in shorter, x \in S}

PlayReplies ==
    {[kind |-> "array", items |-> is] : is \in SeqsUpTo(PlayItems, MaxArrayLen)}

\* Replies in a chat:
\*    You gained +2 STR and +15 XP!
\*    New Quest : "read daily"
\*    Habit called "morning run"
PlayTexts ==
    { <<Word(<<"Y", "o", "u">>), Word(<<"g", "a", "i", "n", "e", "d">>),
        Marker(2, <<"S", "T", "R">>), Word(<<"a", "n", "d">>),
        Marker(15, <<"X", "P", "!">>)>>,
      <<Word(<<"N", "e", "w">>), Word(<<"Q", "u", "e", "s", "t">>), Colon,
        Quoted(<<"r", "e", "a", "d", " ", "d", "a", "i", "l", "y">>)>>,
      <<Word(<<"H", "a", "b", "i", "t">>), Word(keyword.called),
        Quoted(<<"m", "o", "r", "n", "i", "n", "g", " ", "r", "u", "n">>)>> }

PlayFrame == UNCHANGED <<xpVars, habitVars, sideVars>>

\* No call is in progress.
Quiet == AllIdle /\ lastCall = NoCall

\* The caller of generate_daily_quests or parse_ai_action drops the result.
CallReturn ==
    /\ lastCall.op # "none"
    /\ lastCall' = NoCall
    /\ UNCHANGED <<now, dbProfile, dbQuests, dbLog, qreq, faults>>
    /\ PlayFrame

GenerateDailyQuests ==
    /\ Quiet
    /\ \E reply \in PlayReplies :
          generate_daily_quests(reply, MaxQuests,
              UNCHANGED <<now, dbProfile, dbLog, qreq, faults>> /\ PlayFrame)

Init ==
    /\ now = 0
    /\ GameIdle
    /\ XpIdle
    /\ HabitsIdle

\* Quests generated and completed, day after day.
QuestsNext ==
    \/ GenerateDailyQuests
    \/ CallReturn
    \/ \E q \in 1..MaxQuests, entry \in {"view", "method"} :
          Quiet /\ QuestLoad(1, q, entry)
    \/ complete_quest(1)
    \/ add_xp_save(1)
    \/ profile_save(1)
    \/ quest_save(1)
    \/ log_create(1)
    \/ refresh_from_db(1)
    \/ QuestReturn(1)
    \/ Quiet /\ NextDay

SpecQuests == Init /\ [][QuestsNext]_vars

\* The same with chats, whose replies parse_ai_action scans.
Next ==
    \/ QuestsNext
    \/ \E text \in PlayTexts : Quiet /\ ParseAiAction(text)

Spec == Init /\ [][Next]_vars

----------------------------------------------------------------------------
(* Properties of complete_quest, one caller at a time (Spec).              *)

\* C1: a complete_quest call returns True exactly when the quest was not
\* completed before it, and then the character has the quest's XP and stat
\* rewards once; a call on a completed quest (the method returning False,
\* or the view answering "already completed") leaves the character's level,
\* total_xp, xp_to_next_level and stats and the quest's completed and
\* completed_at as they were.
C1_RewardOnlyOnFirstCall ==
    \A r \in Requests :
        (qreq[r].pc = "done" /\ qreq[r].response # "expired") =>
            LET q == qreq[r].quest
            IN  /\ (qreq[r].ret = "true") <=> ~qreq[r].questBefore.completed
                /\ qreq[r].ret = "true" =>
                      /\ dbProfile = RewardedOnce(qreq[r].before, qreq[r].questBefore)
                      /\ dbQuests[q].completed
                /\ qreq[r].questBefore.completed =>
                      /\ qreq[r].ret = IF qreq[r].entry = "method" THEN "false" ELSE "none"
                      /\ dbProfile = qreq[r].before
                      /\ dbQuests[q] = qreq[r].questBefore

\* A second call of the method on a quest with rewards, returning False.
C1_Witness ==
    \E r \in Requests :
        /\ qreq[r].pc = "done"
        /\ qreq[r].entry = "method"
        /\ qreq[r].ret = "false"
        /\ qreq[r].questBefore.completed
        /\ qreq[r].questBefore.reward_xp = 25000
        /\ dbProfile.level = 3

\* C6: a complete_quest call that returns True stores completed = True and
\* completed_at = now, runs the XP reward through the level-up cascade and
\* adds each stat reward flatly: each stat ends at its old value + the
\* levels gained + its reward, and level, total_xp and xp_to_next_level
\* are those the cascade alone gives.
C6_SuccessfulCompletion ==
    \A r \in Requests :
        (qreq[r].pc = "done" /\ qreq[r].ret = "true") =>
            LET q == qreq[r].questBefore
                old == qreq[r].before
                xp == old.total_xp + q.reward_xp
                k == LevelUpsFor(xp, old.xp_to_next_level)
            IN  /\ dbQuests[qreq[r].quest].completed
                /\ dbQuests[qreq[r].quest].completed_at = qreq[r].at
                /\ dbProfile.level = old.level + k
                /\ dbProfile.total_xp = xp - XpConsumed(old.xp_to_next_level, k)
                /\ dbProfile.xp_to_next_level = ThresholdAfter(old.xp_to_next_level, k)
                /\ \A s \in StatNames :
                      dbProfile[s] = old[s] + k + q[RewardField[s]]

\* The quest worth 25000 XP and +2 intelligence, completed by a new
\* character: two levels gained.
C6_Witness ==
    \E r \in Requests :
        /\ qreq[r].pc = "done"
        /\ qreq[r].ret = "true"
        /\ qreq[r].questBefore.reward_intelligence = 2
        /\ qreq[r].before.level = 1
        /\ dbProfile.level = 3
        /\ dbProfile.intelligence = DefaultStat + 4

\* C8: the stored character always has level >= 1, total_xp >= 0 and
\* xp_to_next_level > 0.
C8_CharacterInvariant ==
    /\ dbProfile.level >= 1
    /\ dbProfile.total_xp >= 0
    /\ dbProfile.xp_to_next_level > 0

----------------------------------------------------------------------------
(* One caller at a time, with writes that may fail, on the canned quests   *)
(* of a new character.                                                     *)

FailInit == ConcInit

FailNext ==
    \/ \E q \in 1..Len(FallbackTable), entry \in {"view", "method"} :
          QuestLoad(1, q, entry)
    \/ complete_quest(1)
    \/ add_xp_save(1)
    \/ profile_save(1)
    \/ quest_save(1)
    \/ log_create(1)
    \/ refresh_from_db(1)
    \/ persist_fails(1)
    \/ QuestReturn(1)

SpecFail == FailInit /\ [][FailNext]_vars

\* C3: when a complete_quest call has ended, by returning or by raising,
\* the quest is not stored as uncompleted while the stored character has
\* changed: either both advanced or neither did.
C3_AtomicUnderFailure ==
    \A r \in Requests :
        (qreq[r].pc = "done" /\ ~dbQuests[qreq[r].quest].completed) =>
            dbProfile = qreq[r].before

----------------------------------------------------------------------------
(* generate_daily_quests on every kind of reply (SpecGen).                 *)

MaxGenLen == 2

MaxGenQuests == 7

\* A call starts while the table holds at most this many quests.
MaxGenBefore == 1

\* count=5, the default of generate_daily_quests(profile, count=5); the
\* view calls generate_daily_quests(profile).
DefaultCount == 5

\* Items of an array: complete and valid; every key missing; a negative
\* reward; a float; a number written as a string; a text that is no
\* number; an element that is no object.
GenItems ==
    { Item(TRUE, "Walk", IntVal(20), IntVal(1), Missing, Missing, Missing, Missing),
      Item(TRUE, "", Missing, Missing, Missing, Missing, Missing, Missing),
      Item(TRUE, "Rest", IntVal(-5), Missing, Missing, Missing, Missing, Missing),
      Item(TRUE, "Half", FloatTenths(25), Missing, Missing, Missing, Missing, Missing),
      Item(TRUE, "Text", NumStr(15), Missing, Missing, Missing, Missing, Missing),
      Item(TRUE, "Words", TextVal, Missing, Missing, Missing, Missing, Missing),
      Item(FALSE, "", Missing, Missing, Missing, Missing, Missing, Missing) }

GenReplies ==
    {[kind |-> "prose", items |-> << >>], [kind |-> "badjson", items |-> << >>]}
    \cup {[kind |-> "array", items |-> is] : is \in SeqsUpTo(GenItems, MaxGenLen)}

GenGenerate ==
    /\ Quiet
    /\ Len(dbQuests) <= MaxGenBefore
    /\ \E reply \in GenReplies :
          generate_daily_quests(reply, MaxGenQuests,
              UNCHANGED <<now, dbProfile, dbLog, qreq, faults>> /\ PlayFrame)

GenNext ==
    \/ GenGenerate
    \/ CallReturn
    \/ Quiet /\ NextDay

SpecGen == Init /\ [][GenNext]_vars

\* The rows of the Quest table that the objects returned by the last call
\* stand for: the last Len(returned) rows.
ReturnedRows ==
    SubSeq(dbQuests, Len(dbQuests) - Len(lastCall.returned) + 1, Len(dbQuests))

\* C15: the quests a generate_daily_quests call returns carry
\* generated_by_ai = True when they come from a parsed array of the AI and
\* False when they come from the canned table, whichever way the fallback
\* was reached.
C15_AiFlagTellsOrigin ==
    lastCall.op = "generate" =>
        \A i \in 1..Len(ReturnedRows) :
            ReturnedRows[i].generated_by_ai = (lastCall.path = "array")

\* C16: generate_daily_quests returns exactly count quests on the AI path
\* and exactly the 5 canned quests on the fallback path.
C16_ReturnsCountQuests ==
    lastCall.op = "generate" =>
        Len(lastCall.returned) =
            IF lastCall.path = "array" THEN DefaultCount ELSE Len(FallbackTable)

\* C17: generate_daily_quests returns a non-empty list of quests whose
\* reward_xp and five stat rewards are integers >= 0.
C17_RewardsAreNaturals ==
    lastCall.op = "generate" =>
        /\ Len(lastCall.returned) > 0
        /\ \A i \in 1..Len(lastCall.returned), k \in RewardKeys :
              /\ lastCall.returned[i][k].t = "int"
              /\ lastCall.returned[i][k].v >= 0

\* The due date of a quest created at time t, from the calendar.
NextMidnight(t) == (t \div DayLen) * DayLen + DayLen

\* C18: when the reply holds no array, an array json.loads rejects, or an
\* item the loop fails on, generate_daily_quests does not raise and returns
\* the 5 canned quests, stored as uncompleted daily quests due the next
\* calendar day with the rewards of the table.
C18_FallbackOnFailure ==
    (lastCall.op = "generate" /\ lastCall.path # "array") =>
        /\ ~lastCall.raised
        /\ Len(lastCall.returned) = Len(FallbackTable)
        /\ \A i \in 1..Len(FallbackTable) :
              /\ lastCall.returned[i].title = FallbackTable[i][1]
              /\ ReturnedRows[i].title = FallbackTable[i][1]
              /\ ReturnedRows[i].quest_type = "daily"
              /\ ReturnedRows[i].due_date = NextMidnight(now)
              /\ ~ReturnedRows[i].completed
              /\ <<ReturnedRows[i].reward_xp, ReturnedRows[i].reward_strength,
                   ReturnedRows[i].reward_intelligence, ReturnedRows[i].reward_charisma,
                   ReturnedRows[i].reward_endurance, ReturnedRows[i].reward_luck>>
                 = SubSeq(FallbackTable[i], 2, 7)

\* The loop created a quest and then failed on the next item, on a later
\* day: the canned quests follow the loop's row.
C18_Witness ==
    /\ lastCall.op = "generate"
    /\ lastCall.path = "except"
    /\ Len(dbQuests) = Len(FallbackTable) + 1
    /\ dbQuests[1].generated_by_ai
    /\ date(now) = 1

----------------------------------------------------------------------------
(* The writes of one complete_quest call.                                  *)

\* C19: a complete_quest call writes the character once: while the call is
\* in progress the stored character is either the one it read or the one
\* with the quest's XP and stat rewards both applied.
C19_OneCharacterWrite ==
    \A r \in Requests :
        qreq[r].pc \in {"save_xp", "save_stats", "save_quest"} =>
            \/ dbProfile = qreq[r].before
            \/ dbProfile = RewardedOnce(qreq[r].before, qreq[r].self)

----------------------------------------------------------------------------
(* parse_ai_action on chat replies, with steps that may raise (SpecChat).  *)

MaxChatLogs == 1

MaxChatHabits == 1

MaxChatQuests == 2

MaxChatFaults == 1

\* Replies in a chat:
\*    You gained +2 STR and +15 XP!
\*    +2 STR then +3 str
\*    +0 XP
\*    +25000 exp
\*    {"quest_created": true}
\*    Habit called "morning run"
\*    Habit called "early morning run"
\*    Hello
\*    Habit and Quest : "read daily"
\*    {"xp": 50} +15 XP
ChatTexts ==
    { <<Word(<<"Y", "o", "u">>), Word(<<"g", "a", "i", "n", "e", "d">>),
        Marker(2, <<"S", "T", "R">>), Word(<<"a", "n", "d">>), Marker(15,
        <<"X", "P", "!">>)>>,
      <<Marker(2, <<"S", "T", "R">>), Word(<<"t", "h", "e", "n">>), Marker(3,
        <<"s", "t", "r">>)>>,
      <<Marker(0, <<"X", "P">>)>>,
      <<Marker(25000, <<"e", "x", "p">>)>>,
      <<LBrace, Quoted(<<"q", "u", "e", "s", "t", "_", "c", "r", "e", "a",
        "t", "e", "d">>), Colon, Word(<<"t", "r", "u", "e">>), RBrace>>,
      <<Word(<<"H", "a", "b", "i", "t">>), Word(<<"c", "a", "l", "l", "e",
        "d">>), Quoted(<<"m", "o", "r", "n", "i", "n", "g", " ", "r", "u",
        "n">>)>>,
      <<Word(<<"H", "a", "b", "i", "t">>), Word(<<"c", "a", "l", "l", "e",
        "d">>), Quoted(<<"e", "a", "r", "l", "y", " ", "m", "o", "r", "n",
        "i", "n", "g", " ", "r", "u", "n">>)>>,
      <<Word(<<"H", "e", "l", "l", "o">>)>>,
      <<Word(<<"H", "a", "b", "i", "t">>), Word(<<"a", "n", "d">>),
        Word(<<"Q", "u", "e", "s", "t">>), Colon,
        Quoted(<<"r", "e", "a", "d", " ", "d", "a", "i", "l", "y">>)>>,
      <<LBrace, Quoted(<<"x", "p">>), Colon, Number(50), RBrace,
        Marker(15, <<"X", "P">>)>> }

\* The step that raises when the call reaches it.
ChatFaults == DOMAIN ChatSteps

ChatParse ==
    /\ Quiet
    /\ \E text \in ChatTexts, fail \in ChatFaults :
          /\ fail # "none" => faults < MaxChatFaults
          /\ parse_call(text, fail, MaxChatLogs, MaxChatHabits, MaxChatQuests)

ChatNext ==
    \/ ChatParse
    \/ CallReturn

\* A new character that chats on some day.
ChatInit ==
    /\ now \in {d * DayLen : d \in 0..MaxGameDay}
    /\ GameIdle
    /\ XpIdle
    /\ HabitsIdle

SpecChat == ChatInit /\ [][ChatNext]_vars

\* The arguments of the last parse_ai_action call: the reply, and the
\* character, habits, quests and log entries stored when it began.
ChatText == lower_text(lastCall.args[1])

ChatBefore == lastCall.args[2]

ChatHabitsBefore == lastCall.args[3]

ChatQuestsBefore == lastCall.args[4]

ChatLogBefore == lastCall.args[5]

RECURSIVE MarkerSum(_, _)
\* The sum of the numbers of the markers of text at the positions S.
MarkerSum(text, S) ==
    IF S = {} THEN 0
    ELSE text[Least(S)].n + MarkerSum(text, S \ {Least(S)})

\* The stats that have a marker in the last reply.
ChatStats == {st \in StatNames : marker_matches(ChatText, StatPattern[st]) # {}}

\* C12: after a parse_ai_action call that returned normally, every stat
\* marker of the reply has been added flatly to its stat, the XP of the XP
\* marker has gone through add_xp, and the returned map holds stat_gains
\* with each detected stat's amount and xp with the detected XP amount.
C12_MarkersApplied ==
    (lastCall.op = "parse" /\ lastCall.path = "return") =>
        LET total == [st \in ChatStats |->
                         MarkerSum(ChatText, marker_matches(ChatText, StatPattern[st]))]
            xp == MarkerSum(ChatText, xp_matches(ChatText))
        IN  /\ (ChatStats # {} \/ xp_matches(ChatText) # {}) =>
                  dbProfile = add_xp(apply_stat_gains(ChatBefore, total), xp)
            /\ ChatStats # {} =>
                  dict_get(lastCall.action, action_key.stat_gains) = DictVal(total)
            /\ xp > 0 => dict_get(lastCall.action, action_key.xp) = IntVal(xp)

C14_LogIffMutation ==
    (lastCall.op = "parse" /\ lastCall.path = "return") =>
        BagCardinality(dbLog) - BagCardinality(ChatLogBefore) =
            IF \/ dbProfile # ChatBefore
               \/ Len(dbHabits) > Len(ChatHabitsBefore)
               \/ Len(dbQuests) > Len(ChatQuestsBefore)
            THEN 1 ELSE 0

\* C20: when the reply matches a habit phrase, parse_ai_action creates the
\* habit, flagged created_from_chat and ai_suggested, exactly when no
\* stored habit has the same first 10 characters as the extracted name; a
\* call creates at most one habit.
C20_HabitDedupe ==
    (lastCall.op = "parse" /\ lastCall.path = "return"
        /\ habit_match(ChatText) # 0) =>
        LET name == title(ChatText[habit_match(ChatText)].s)
            same_start(h) == lower(first_chars(h.name, NameSlice))
                                = lower(first_chars(name, NameSlice))
        IN  IF \E h \in 1..Len(ChatHabitsBefore) : same_start(ChatHabitsBefore[h])
            THEN dbHabits = ChatHabitsBefore
            ELSE dbHabits = Append(ChatHabitsBefore, NewHabit(name, TRUE, TRUE))

\* C21: when the reply matches a quest phrase, a parse_ai_action call that
\* returns normally has added exactly one quest to the stored ones: not
\* completed, reward_xp 15, reward_intelligence 1, the other stat rewards
\* 0, due the day after the call, whatever quests were stored before.
C21_QuestAlwaysCreated ==
    (lastCall.op = "parse" /\ lastCall.path = "return"
        /\ quest_match(ChatText) # 0) =>
        /\ Len(dbQuests) = Len(ChatQuestsBefore) + 1
        /\ SubSeq(dbQuests, 1, Len(ChatQuestsBefore)) = ChatQuestsBefore
        /\ LET q == dbQuests[Len(dbQuests)]
           IN  /\ q.title = title(ChatText[quest_match(ChatText)].s)
               /\ ~q.completed
               /\ q.reward_xp = 15
               /\ q.reward_intelligence = 1
               /\ q.reward_strength = 0 /\ q.reward_charisma = 0
               /\ q.reward_endurance = 0 /\ q.reward_luck = 0
               /\ q.due_date = NextMidnight(now)

\* The same reply parsed a second time, on a day after the first, has
\* created a second quest with the same title.
C21_Witness ==
    /\ lastCall.op = "parse"
    /\ lastCall.path = "return"
    /\ Len(dbQuests) = 2
    /\ dbQuests[1].title = dbQuests[2].title
    /\ date(now) > 0

ChatXp ==
    IF xp_matches(ChatText) = {} THEN 0 ELSE ChatText[Least(xp_matches(ChatText))].n

\* The rise of a stat in the last call beyond the levels gained.
ChatRise(st) ==
    (dbProfile[st] - ChatBefore[st]) - (dbProfile.level - ChatBefore.level)

C25_StoredAreReturned ==
    lastCall.op = "generate" =>
        /\ Len(dbQuests) = Len(lastCall.args[1]) + Len(lastCall.returned)
        /\ \A i \in 1..Len(lastCall.returned) :
              ReturnedRows[i].title = lastCall.returned[i].title

----------------------------------------------------------------------------
(* Termination of add_xp.                                                  *)

\* add_xp is straight-line code around one loop: a statement that can run
\* does run.
SpecXpLive == XpInit /\ [][XpNext]_vars /\ WF_vars(XpNext)

\* C28: add_xp, called with amount >= 0 on a character whose
\* xp_to_next_level is at least 1, reaches its save(), also from the
\* thresholds below 5 that int(1.2 x) leaves as they are; the level-ups of
\* the call are at most the total_xp it had to spend.
C28_AddXpTerminates ==
    /\ <>(xpPc = "done")
    /\ [](xpSelf.level - xpBefore.level <= xpBefore.total_xp + xpAmount)

\* Threshold 1, which never grows: a grant of 13 ended after 13 level-ups.
C28_Witness ==
    /\ xpPc = "done"
    /\ xpBefore.xp_to_next_level = 1
    /\ xpSelf.xp_to_next_level = 1
    /\ xpAmount = MaxAmount
    /\ xpSelf.level = xpBefore.level + xpBefore.total_xp + xpAmount

----------------------------------------------------------------------------
(* The counters of a habit over a sequence of complete_today calls.        *)

\* The step is a complete_today call on habit h that returns True.
CompletedNow(h) ==
    \E r \in Requests :
        /\ hreq[r].pc = "loaded"
        /\ hreq[r].habit = h
        /\ hreq'[r].pc = "done"
        /\ hreq'[r].ret

----------------------------------------------------------------------------
(* StatusEffect (models.py 258-296).  In this specification one hour is    *)
(* EffectHour instants of the clock, so that instants strictly inside an   *)
(* hour exist.                                                             *)

EffectHour == 2
MaxEffects == 1
MaxDuration == 2
MaxGiven == 3

\* timezone.timedelta(hours=h)
hours(h) == h * EffectHour

\* StatusEffect.save keeps an expires_at it was handed and otherwise sets it
\* from the clock; given is << >> for None and <<t>> for an instant.
effect_expiry_recomputed(given, t, duration_hours) == t + hours(duration_hours)

effect_expiry(given, t, duration_hours) ==
    IF given = << >> THEN t + hours(duration_hours) ELSE given[1]

\* StatusEffect.is_expired, read at the instant t.
is_expired(e, t) == t > e.expires_at

GivenExpiries == {<< >>} \cup {<<t>> : t \in 0..MaxGiven}

\* StatusEffect(...).save() of a new object.
EffectCreate ==
    /\ Len(dbEffects) < MaxEffects
    /\ \E d \in 0..MaxDuration, given \in GivenExpiries :
          /\ dbEffects' = Append(dbEffects,
                 [duration_hours |-> d,
                  created_at |-> now,
                  expires_at |-> effect_expiry(given, now, d)])
          /\ lastJob' = [op |-> "effect_save", given |-> given]
    /\ UNCHANGED <<now, profileExists, character_class, dbChat>>
    /\ UNCHANGED <<xpVars, habitVars, gameVars>>

\* A stored effect is loaded, its duration_hours edited and save() called:
\* the object carries its expires_at, so save() leaves it alone.
EffectResave ==
    /\ \E i \in 1..Len(dbEffects), d \in 0..MaxDuration :
          /\ dbEffects' = [dbEffects EXCEPT ![i] =
                 [@ EXCEPT !.duration_hours = d,
                           !.expires_at = effect_expiry(<<@>>, now, d)]]
          /\ lastJob' = [op |-> "effect_resave", id |-> i]
    /\ UNCHANGED <<now, profileExists, character_class, dbChat>>
    /\ UNCHANGED <<xpVars, habitVars, gameVars>>

EffectTick ==
    Tick(MaxTime, UNCHANGED <<xpVars, habitVars, gameVars, sideVars>>)

EffectInit ==
    /\ now = 0
    /\ GameIdle
    /\ XpIdle
    /\ HabitsIdle

EffectNext ==
    \/ EffectCreate
    \/ EffectResave
    \/ EffectTick

SpecEffect == EffectInit /\ [][EffectNext]_vars

\* C22: a status effect saved without expires_at gets the instant of the
\* save plus duration_hours hours, one saved with an expires_at keeps it, and
\* no later step changes a stored expires_at; is_expired read at an instant
\* is exactly "that instant is later than expires_at": for an effect that
\* expires one hour after its creation it is false at creation and true at
\* every instant more than one hour later; and once true it stays true as
\* the clock advances.
C22_ExpiryFixedAndMonotone ==
    /\ [][Len(dbEffects') > Len(dbEffects) =>
            LET e == dbEffects'[Len(dbEffects')]
            IN  /\ lastJob'.op = "effect_save"
                /\ lastJob'.given = << >> =>
                       e.expires_at = now + e.duration_hours * EffectHour
                /\ lastJob'.given # << >> => e.expires_at = lastJob'.given[1]]_vars
    /\ [][\A i \in 1..Len(dbEffects) :
            /\ i <= Len(dbEffects')
            /\ dbEffects'[i].expires_at = dbEffects[i].expires_at
            /\ is_expired(dbEffects[i], now) => is_expired(dbEffects'[i], now')]_vars
    /\ [](\A i \in 1..Len(dbEffects) :
            LET e == dbEffects[i]
            IN  /\ is_expired(e, now) <=> now > e.expires_at
                /\ e.expires_at = e.created_at + EffectHour =>
                      /\ now = e.created_at => ~is_expired(e, now)
                      /\ now > e.created_at + EffectHour => is_expired(e, now))

\* An effect saved without expires_at for one hour is read as expired,
\* more than one hour after its creation, after having been edited and
\* saved again.
C22_Witness ==
    /\ lastJob.op = "effect_resave"
    /\ \E i \in 1..Len(dbEffects) :
          /\ dbEffects[i].expires_at = dbEffects[i].created_at + EffectHour
          /\ dbEffects[i].expires_at > MaxGiven
          /\ dbEffects[i].duration_hours # 1
          /\ now > dbEffects[i].created_at + EffectHour
          /\ is_expired(dbEffects[i], now)

----------------------------------------------------------------------------
(* The deferred jobs (tasks.py 9-130), a chat request (views.py 213-309),  *)
(* a registration (views.py 27-128) and the deletion of the character,     *)
(* each run from its first line to its return.                             *)

MaxRuns == 3
MaxTaskTime == 2

\* How many operations have run.
Runs == IF lastJob.op = "none" THEN 0 ELSE lastJob.runs

\* The tables a character owns, with the character's own row.
TaskTables ==
    <<profileExists, dbProfile, character_class, dbQuests, dbHabits, dbChat,
      dbLog, dbEffects>>

job_record(op, result) ==
    [op |-> op, runs |-> Runs + 1, result |-> result, before |-> TaskTables]

\* Profile.objects.get(id=profile_id)
profile_get_stale(exists) == "found"

profile_get(exists) == IF exists THEN "found" ELSE "DoesNotExist"

\* The attributes of a Profile object that hold a number, and some that
\* hold something else.
ProfileNumbers == StatNames \cup {"level", "total_xp", "xp_to_next_level"}
ProfileTexts == {"name", "character_class"}

\* The value of a bonus that passed isinstance(bonus, int): True counts 1.
bonus_value(bonus) ==
    IF bonus.t = "bool" THEN (IF bonus.v THEN 1 ELSE 0) ELSE bonus.v

\* hasattr(profile, stat) and isinstance(bonus, int) and 0 <= bonus <= 3
bonus_accepted(stat, bonus) ==
    /\ stat \in ProfileNumbers \cup ProfileTexts
    /\ bonus.t \in {"int", "bool"}
    /\ 0 <= bonus_value(bonus)
    /\ bonus_value(bonus) <= 3

\* The loop over stat_adjustments.items(): adj is the dict as a sequence of
\* <<key, value>> pairs.
RECURSIVE apply_adjustments(_, _)
apply_adjustments(profile, adj) ==
    IF adj = << >> THEN profile
    ELSE LET stat == Head(adj)[1]
             bonus == Head(adj)[2]
         IN  apply_adjustments(
                 IF bonus_accepted(stat, bonus) /\ stat \in ProfileNumbers
                 THEN [profile EXCEPT ![stat] = @ + bonus_value(bonus)]
                 ELSE profile,
                 Tail(adj))

\* current_value + bonus raises TypeError on an attribute that is a string.
adjustments_raise(adj) ==
    \E i \in 1..Len(adj) :
        bonus_accepted(adj[i][1], adj[i][2]) /\ adj[i][1] \in ProfileTexts

\* The replies of the AI to the enhancement prompt: text that is not JSON,
\* JSON that is not an object, and objects; class "" and message "" stand
\* for a key the object lacks.
EnhanceObject(class, adj, message) ==
    [kind |-> "object", class |-> class, stat_adjustments |-> adj,
     message |-> message]

EnhanceReplies ==
    { [kind |-> "prose"], [kind |-> "list"],
      EnhanceObject("Code Mage",
          << <<"strength", IntVal(1)>>, <<"intelligence", IntVal(2)>> >>, "Hi"),
      EnhanceObject("", << <<"luck", IntVal(3)>>, <<"charisma", IntVal(4)>>,
                           <<"endurance", IntVal(-1)>> >>, ""),
      EnhanceObject("Code Mage", << <<"level", IntVal(3)>> >>, ""),
      EnhanceObject("", << <<"total_xp", IntVal(2)>>,
                           <<"xp_to_next_level", BoolVal(TRUE)>> >>, "Hi"),
      EnhanceObject("Code Mage", << <<"mana", IntVal(2)>>,
                                    <<"luck", NumStr(2)>> >>, "Hi"),
      EnhanceObject("Code Mage", << <<"name", IntVal(1)>> >>, "Hi") }

\* The contents of a chat record.
user_message == [kind |-> "user", arg |-> "hello"]
reply_message(text) == [kind |-> "message", arg |-> text]
enhanced_welcome(class) == [kind |-> "enhanced_welcome", arg |-> class]
enhanced_ready(class) == [kind |-> "enhanced_ready", arg |-> class]

ChatRow(role, content, t) == [role |-> role, content |-> content, timestamp |-> t]

Assistants(chat) == {i \in 1..Len(chat) : chat[i].role = "assistant"}

\* AIResponse.objects.filter(profile=profile, role='assistant').update(...)
update_assistants(chat, content, t) ==
    [i \in 1..Len(chat) |->
        IF chat[i].role = "assistant"
        THEN [chat[i] EXCEPT !.content = content, !.timestamp = t]
        ELSE chat[i]]

\* get_or_create(profile, role='assistant', defaults=...) and what follows it.
welcome_saved(chat, content, t) ==
    IF Assistants(chat) = {} THEN Append(chat, ChatRow("assistant", content, t))
    ELSE update_assistants(chat, content, t)

\* enhance_character_with_ai after the profile was found: the stored
\* profile, class and chat it leaves, and what it returns.
enhance_found(reply, profile, class, chat, t) ==
    IF reply.kind = "prose"
    THEN [profile |-> profile, class |-> class, result |-> "enhanced",
          chat |-> update_assistants(chat, enhanced_ready(class), t)]
    ELSE IF reply.kind = "list" \/ adjustments_raise(reply.stat_adjustments)
    THEN [profile |-> profile, class |-> class, chat |-> chat,
          result |-> "error"]
    ELSE LET class2 == IF reply.class # "" THEN reply.class ELSE class
             content == IF reply.message # "" THEN reply_message(reply.message)
                        ELSE enhanced_welcome(class2)
         IN  [profile |-> apply_adjustments(profile, reply.stat_adjustments),
              class |-> class2,
              chat |-> IF Cardinality(Assistants(chat)) > 1 THEN chat
                       ELSE welcome_saved(chat, content, t),
              result |-> IF Cardinality(Assistants(chat)) > 1 THEN "error"
                         ELSE "enhanced"]

enhance_character_with_ai ==
    /\ Runs < MaxRuns
    /\ \E reply \in EnhanceReplies :
          IF profile_get(profileExists) = "DoesNotExist"
          THEN /\ lastJob' = job_record("enhance", "not_found")
               /\ UNCHANGED <<dbProfile, character_class, dbChat>>
          ELSE LET out == enhance_found(reply, dbProfile, character_class, dbChat, now)
               IN  /\ dbProfile' = out.profile
                   /\ character_class' = out.class
                   /\ dbChat' = out.chat
                   /\ lastJob' = job_record("enhance", out.result)
    /\ UNCHANGED <<now, profileExists, dbEffects, dbQuests, dbLog, qreq, faults, lastCall>>
    /\ UNCHANGED <<xpVars, habitVars>>

\* profile.quests.filter(completed=False, generated_by_ai=False,
\* quest_type='daily').delete()
without_basic_quests(quests) ==
    SelectSeq(quests, LAMBDA q : ~(/\ ~q.completed
                                   /\ ~q.generated_by_ai
                                   /\ q.quest_type = "daily"))

TaskReplies ==
    {[kind |-> "prose", items |-> << >>], [kind |-> "badjson", items |-> << >>]}
    \cup {r \in PlayReplies : Len(r.items) = 1}

\* generate_ai_quests: Profile has no attribute goal, so the test
\* "if profile.goal" raises after the quests were replaced and the job
\* returns its error string.
generate_ai_quests ==
    /\ Runs < MaxRuns
    /\ \E reply \in TaskReplies :
          IF profile_get(profileExists) = "DoesNotExist"
          THEN /\ lastJob' = job_record("generate_ai_quests", "not_found")
               /\ UNCHANGED dbQuests
          ELSE /\ dbQuests' = without_basic_quests(dbQuests)
                                 \o generated_rows(reply, now)
               /\ lastJob' = job_record("generate_ai_quests", "error")
    /\ UNCHANGED <<now, profileExists, character_class, dbChat, dbEffects>>
    /\ UNCHANGED <<dbProfile, dbLog, qreq, faults, lastCall>>
    /\ UNCHANGED <<xpVars, habitVars>>

\* A POST to the chat view: the user's message is stored, then building the
\* prompt reads profile.goal, which raises, and the view answers 500.
ChatTurn ==
    /\ Runs < MaxRuns
    /\ IF profileExists
       THEN /\ dbChat' = Append(dbChat, ChatRow("user", user_message, now))
            /\ lastJob' = job_record("chat", "error")
       ELSE /\ lastJob' = job_record("chat", "not_found")
            /\ UNCHANGED dbChat
    /\ UNCHANGED <<now, profileExists, character_class, dbEffects>>
    /\ UNCHANGED <<xpVars, habitVars, gameVars>>

\* A POST to the register view: Profile.objects.create(..., goal=goal) raises
\* TypeError inside the transaction, which undoes the new user, and the view
\* shows the form again; no job is scheduled.
Register ==
    /\ Runs < MaxRuns
    /\ lastJob' = job_record("register", "error")
    /\ UNCHANGED <<now, profileExists, character_class, dbChat, dbEffects>>
    /\ UNCHANGED <<xpVars, habitVars, gameVars>>

\* The character is deleted; every table that refers to it cascades.
DeleteCharacter ==
    /\ Runs < MaxRuns
    /\ profileExists
    /\ profileExists' = FALSE
    /\ dbQuests' = << >>
    /\ dbHabits' = << >>
    /\ dbChat' = << >>
    /\ dbLog' = EmptyBag
    /\ dbEffects' = << >>
    /\ lastJob' = job_record("delete", "deleted")
    /\ UNCHANGED <<now, character_class, dbProfile, qreq, faults, lastCall, hreq>>
    /\ UNCHANGED xpVars

TaskTick ==
    Tick(MaxTaskTime, UNCHANGED <<xpVars, habitVars, gameVars, sideVars>>)

\* A character with the canned quests or with none.
TaskInit ==
    /\ now = 0
    /\ SideIdle
    /\ dbProfile = NewProfile
    /\ dbQuests \in {<< >>, FallbackRows(0)}
    /\ dbLog = EmptyBag
    /\ qreq = [r \in Requests |-> IdleQuestRequest]
    /\ faults = 0
    /\ lastCall = NoCall
    /\ XpIdle
    /\ HabitsIdle

TaskNext ==
    \/ enhance_character_with_ai
    \/ generate_ai_quests
    \/ ChatTurn
    \/ Register
    \/ DeleteCharacter
    \/ TaskTick

SpecTasks == TaskInit /\ [][TaskNext]_vars

\* C23: a deferred job that runs after its character was deleted returns
\* the "not found" string without raising and leaves every table as it was.
C23_JobOnDeletedIsNoOp ==
    (lastJob.op \in {"enhance", "generate_ai_quests"} /\ ~lastJob.before[1]) =>
        /\ lastJob.result = "not_found"
        /\ TaskTables = lastJob.before

\* Both jobs have run on a deleted character.
C23_Witness ==
    /\ lastJob.op = "generate_ai_quests"
    /\ lastJob.runs = MaxRuns
    /\ ~lastJob.before[1]
    /\ lastJob.result = "not_found"

\* C24: while the character exists no step changes or removes a stored chat
\* record: the history only grows at its end.
C24_ChatHistoryAppendOnly ==
    [][profileExists' =>
          \A i \in 1..Len(dbChat) :
              /\ i <= Len(dbChat')
              /\ dbChat'[i] = dbChat[i]]_vars

\* C27: the enhancement job leaves level, total_xp and xp_to_next_level as
\* they were and raises each stat by 0 to 3.
C27_EnhanceTouchesOnlyClassAndStats ==
    lastJob.op = "enhance" =>
        LET before == lastJob.before[2]
        IN  /\ dbProfile.level = before.level
            /\ dbProfile.total_xp = before.total_xp
            /\ dbProfile.xp_to_next_level = before.xp_to_next_level
            /\ \A stat \in StatNames :
                  /\ dbProfile[stat] >= before[stat]
                  /\ dbProfile[stat] <= before[stat] + 3

============================================================================
